---- MODULE Spec2Model ----
(***************************************************************************)
(* Model of the scale-up recommender of scaler-simulator (package          *)
(* recommender): Recommender.Run, runSimulation, the goroutine started by  *)
(* triggerNodePoolSimulations, one goroutine per runSimulationForNodePool, *)
(* and the pure helpers getEligibleNodePools and getWinner.                *)
(*                                                                         *)
(* Strings are sequences of one-character strings, so that the label       *)
(* nodePool.Name + "-" + strconv.Itoa(runNum) is a real concatenation.     *)
(* A Go pointer or nil-able value is a sequence of length <= 1 (<<>> is    *)
(* nil); an error is a string, NilErr being the nil error.                 *)
(*                                                                         *)
(* The sandbox (VirtualClusterAccess) is outside the given sources: it is  *)
(* modelled from its contract as a set of nodes and a set of pending pods. *)
(* The sandbox's own scheduler is not part of the recommender's code and   *)
(* takes no step here.                                                     *)
(***************************************************************************)
EXTENDS Integers, Sequences, FiniteSets, TLC

(* ----------------------------- bounds --------------------------------- *)

\* Largest worker.Maximum drawn for a worker pool.
MaxMaximum == 2
\* Largest number of nodes a pool has in the sandbox when Run starts.
MaxInitNodes == 2
\* Largest number of pending pods in the sandbox when Run starts.
MaxPods == 2
\* Largest cumulative score drawn for a trial result (getWinner's inputs).
MaxScore == 2
\* Longest pool name and largest run number drawn for the label function.
MaxNameLen == 2
MaxRunNum == 12
\* Largest per-node cost and largest pool minimum drawn for the scale-down
\* ranking.
MaxCost == 2
MaxMinimum == 2

(* --------------------------- program constants ------------------------ *)

\* math.MaxFloat64, the initial minScore of getWinner: above every score
\* that is drawn.
MaxFloat64 == 1000

NilErr == "nil"
Nil == <<>>
Some(x) == <<x>>

\* shoot.Spec.Provider.Workers: the names of the worker pools, in the order
\* of the shoot's worker list (unique, as Gardener requires).
WorkerNames == << <<"a">>, <<"a", "-", "1">> >>

TrialIds == 1..Len(WorkerNames)

(* ------------------------------ strings ------------------------------- *)

Digits == <<"0", "1", "2", "3", "4", "5", "6", "7", "8", "9">>

RECURSIVE ItoaNat(_)
ItoaNat(n) ==
    IF n < 10 THEN <<Digits[n + 1]>>
    ELSE ItoaNat(n \div 10) \o <<Digits[(n % 10) + 1]>>

\* strconv.Itoa
Itoa(n) == IF n < 0 THEN <<"-">> \o ItoaNat(-n) ELSE ItoaNat(n)

\* labelValue := nodePool.Name + "-" + strconv.Itoa(runNum)
labelValueNoSeparator(name, runNum) == name \o Itoa(runNum)
labelValue(name, runNum) == name \o <<"-">> \o Itoa(runNum)

\* nodeCopy.Name = node.Name + "SimRun-" + labelValue
SimRunInfix == <<"S", "i", "m", "R", "u", "n", "-">>
nodeCopyName(nodeName, label) == nodeName \o SimRunInfix \o label

(* ------------------------------ sandbox ------------------------------- *)

\* A node of the sandbox: its name, the worker pool it belongs to (its pool
\* label) and the value of its app.kubernetes.io/simulation-run label
\* (<<>> when it has none).
NoLabel == <<>>

\* VirtualClusterAccess.ListNodes: every node of the sandbox (the call takes
\* no label selector).
ListNodes(ns) == ns

\* VirtualClusterAccess.ListNodesInNodePool: the nodes carrying the pool's
\* label.
ListNodesInNodePool(ns, poolName) == {n \in ns : n.Pool = poolName}

\* VirtualClusterAccess.AddNodes: creates the nodes; a node whose name is
\* taken is not created again.
AddNodes(ns, new) == ns \cup {n \in new : \A m \in ns : m.Name # n.Name}

\* The nodes a pool has when Run starts: poolName-n1, poolName-n2, ...
InitialNodes(poolName, k) ==
    {[Name |-> poolName \o <<"-", "n">> \o Itoa(j), Pool |-> poolName, SimRun |-> NoLabel] :
        j \in 1..k}

(* --------------------------- pure functions --------------------------- *)

\* if int32(len(nodes)) >= worker.Maximum { continue }
atMaximumOffByOne(count, maximum) == count > maximum
atMaximum(count, maximum) == count >= maximum

\* The loop of getEligibleNodePools from worker i on; failAt is the worker
\* whose ListNodesInNodePool call fails (0: none fails).
RECURSIVE eligibleLoop(_, _, _, _, _)
eligibleLoop(ws, ns, failAt, i, acc) ==
    IF i > Len(ws) THEN [pools |-> acc, err |-> NilErr]
    ELSE IF failAt = i THEN [pools |-> <<>>, err |-> "ListNodesInNodePool"]
    ELSE LET worker == ws[i]
             current == Cardinality(ListNodesInNodePool(ns, worker.Name))
         IN  IF atMaximum(current, worker.Maximum)
             THEN eligibleLoop(ws, ns, failAt, i + 1, acc)
             ELSE eligibleLoop(ws, ns, failAt, i + 1,
                      Append(acc, [Name |-> worker.Name, Max |-> worker.Maximum,
                                   Current |-> current]))

getEligibleNodePools(ws, ns, failAt) == eligibleLoop(ws, ns, failAt, 1, <<>>)

\* The zero value of scalesim.NodeRunResult and of runResult.
ZeroNodeRunResult == [NodePool |-> <<>>, CumulativeScore |-> 0]
ZeroRunResult == [result |-> ZeroNodeRunResult, unscheduledPods |-> {}, err |-> NilErr]

\* getWinner: the first result whose score is below every earlier one.
RECURSIVE winnerLoop(_, _, _, _)
winnerLoop(rs, i, winner, minScore) ==
    IF i > Len(rs) THEN winner
    ELSE IF rs[i].result.CumulativeScore < minScore
         THEN winnerLoop(rs, i + 1, rs[i], rs[i].result.CumulativeScore)
         ELSE winnerLoop(rs, i + 1, winner, minScore)

getWinner(rs) == winnerLoop(rs, 1, ZeroRunResult, MaxFloat64)

\* Recommendation is a Go map: a missing key reads as 0.
Get(m, k) == IF k \in DOMAIN m THEN m[k] ELSE 0

(* ------------------------------- state -------------------------------- *)

VARIABLES
    nodes,              \* the sandbox's nodes
    pods,               \* the sandbox's pending pods
    workers,            \* shoot.Spec.Provider.Workers: <<[Name, Maximum]>>
    pcRun,              \* where Recommender.Run (and runSimulation) stands
    recommendation,     \* Run's recommendation map
    unscheduledPods,    \* Run's unscheduledPods
    runNumber,          \* Run's runNumber
    winningNodeResult,  \* Run's winningNodeResult (Nil or Some)
    err,                \* Run's err
    exitBranch,         \* the return or break through which Run left
    retErr,             \* the error Run returned
    eligibleNodePools,  \* runSimulation's eligibleNodePools
    results,            \* runSimulation's results
    errs,               \* runSimulation's errs
    numDrained,         \* iterations of runSimulation's range over resultCh
    resultCh,           \* the channel: [buf, cap, closed]
    pcTrigger,          \* where triggerNodePoolSimulations stands
    spawnIdx,           \* its position in nodePools
    wg,                 \* the WaitGroup's counter
    trials,             \* one runSimulationForNodePool goroutine per pool
    panicked,           \* a send on the closed channel happened
    fnPc, fnArg, fnRet, \* a pure function's call: position, inputs, result
    shootNodes,         \* the nodes of the shoot's source cluster
    pcReq,              \* where the HTTP request being served stands
    w,                  \* its http.ResponseWriter: [status, body]
    calls,              \* the calls it made, in order: <<[op, arg, ok]>>
    reqNodes,           \* its local nodes
    podRequests,        \* ScenarioRunner.podRequests: yaml path -> count
    deployed            \* the podRequests keys deployPods' loop has visited

sandboxVars == <<nodes, pods, workers>>
runVars == <<pcRun, recommendation, unscheduledPods, runNumber, winningNodeResult,
             err, exitBranch, retErr>>
simVars == <<eligibleNodePools, results, errs, numDrained>>
goVars == <<resultCh, pcTrigger, spawnIdx, wg, trials, panicked>>
fnVars == <<fnPc, fnArg, fnRet>>
reqVars == <<shootNodes, pcReq, w, calls, reqNodes, podRequests, deployed>>
vars == <<sandboxVars, runVars, simVars, goVars, fnVars, reqVars>>

\* A goroutine slot that was not started.
NoTrial == [pc |-> "none", nodePool |-> [Name |-> <<>>, Max |-> 0, Current |-> 0],
            runNum |-> 0, nodes |-> {}, runRes |-> ZeroRunResult, sent |-> 0]

\* make(chan runResult, n)
MakeChanUnbuffered(n) == [buf |-> <<>>, cap |-> 0, closed |-> FALSE]
MakeChan(n) == [buf |-> <<>>, cap |-> n, closed |-> FALSE]

\* The state of Run's and runSimulation's locals at the call of Run, and of
\* the goroutines before any is started.
RunEntry ==
    /\ pcRun = "ListPods"
    /\ recommendation = [k \in {} |-> 0]
    /\ unscheduledPods = {}
    /\ runNumber = 0
    /\ winningNodeResult = Nil
    /\ err = NilErr
    /\ exitBranch = "none"
    /\ retErr = NilErr
    /\ eligibleNodePools = <<>>
    /\ results = <<>>
    /\ errs = NilErr
    /\ numDrained = 0
    /\ resultCh = MakeChan(0)
    /\ pcTrigger = "idle"
    /\ spawnIdx = 1
    /\ wg = 0
    /\ trials = [i \in TrialIds |-> NoTrial]
    /\ panicked = FALSE

FnIdle == fnPc = "off" /\ fnArg = <<>> /\ fnRet = <<>>

\* A response writer nothing was written to.
NewResponseWriter == [status |-> 0, body |-> <<>>]

\* No HTTP request is being served.
ReqIdle ==
    /\ shootNodes = {}
    /\ pcReq = "off"
    /\ w = NewResponseWriter
    /\ calls = <<>>
    /\ reqNodes = {}
    /\ podRequests = [p \in {} |-> 0]
    /\ deployed = {}

\* A sandbox holding some nodes of each pool and some pending pods, none of
\* them carrying a simulation-run label, and a shoot whose pools have some
\* Maximum.
Init ==
    /\ \E maxs \in [TrialIds -> 0..MaxMaximum] :
           workers = [i \in TrialIds |-> [Name |-> WorkerNames[i], Maximum |-> maxs[i]]]
    /\ \E cnt \in [TrialIds -> 0..MaxInitNodes] :
           nodes = UNION {InitialNodes(WorkerNames[i], cnt[i]) : i \in TrialIds}
    /\ \E k \in 0..MaxPods : pods = 1..k
    /\ RunEntry
    /\ FnIdle
    /\ ReqIdle

(* --------------------------- Recommender.Run -------------------------- *)

\* unscheduledPods, err := r.engine.VirtualClusterAccess().ListPods(ctx)
RunListPods ==
    /\ pcRun = "ListPods"
    /\ \E ok \in BOOLEAN :
         IF ok
         THEN /\ unscheduledPods' = pods
              /\ pcRun' = "getShoot"
              /\ UNCHANGED <<err, exitBranch, retErr>>
         ELSE /\ err' = "ListPods"
              /\ retErr' = "ListPods"
              /\ exitBranch' = "ListPodsError"
              /\ pcRun' = "done"
              /\ UNCHANGED unscheduledPods
    /\ UNCHANGED <<recommendation, runNumber, winningNodeResult>>
    /\ UNCHANGED <<sandboxVars, simVars, goVars, fnVars, reqVars>>

\* shoot, err := r.getShoot()
RunGetShoot ==
    /\ pcRun = "getShoot"
    /\ \E ok \in BOOLEAN :
         IF ok
         THEN /\ pcRun' = "loop"
              /\ UNCHANGED <<err, exitBranch, retErr>>
         ELSE /\ err' = "GetShootObj"
              /\ retErr' = "GetShootObj"
              /\ exitBranch' = "GetShootError"
              /\ pcRun' = "done"
    /\ UNCHANGED <<recommendation, unscheduledPods, runNumber, winningNodeResult>>
    /\ UNCHANGED <<sandboxVars, simVars, goVars, fnVars, reqVars>>

\* The head of the loop: runNumber++, and the break when no pod is pending;
\* after the loop Run returns recommendation, nil.
RunLoopWithoutPendingCheck ==
    /\ pcRun = "loop"
    /\ runNumber' = runNumber + 1
    /\ pcRun' = "runSimulation"
    /\ UNCHANGED <<recommendation, unscheduledPods, winningNodeResult, err, exitBranch, retErr>>
    /\ UNCHANGED <<sandboxVars, simVars, goVars, fnVars, reqVars>>

RunLoop ==
    /\ pcRun = "loop"
    /\ runNumber' = runNumber + 1
    /\ IF Cardinality(unscheduledPods) = 0
       THEN /\ exitBranch' = "AllScheduled"
            /\ retErr' = NilErr
            /\ pcRun' = "done"
       ELSE /\ pcRun' = "runSimulation"
            /\ UNCHANGED <<exitBranch, retErr>>
    /\ UNCHANGED <<recommendation, unscheduledPods, winningNodeResult, err>>
    /\ UNCHANGED <<sandboxVars, simVars, goVars, fnVars, reqVars>>

\* runSimulation up to the start of the range over resultCh: the eligible
\* pools, the channel, and the goroutine of triggerNodePoolSimulations. On an
\* error of getEligibleNodePools it returns nil, nil, err to Run.
RunSimulation ==
    /\ pcRun = "runSimulation"
    /\ \E failAt \in 0..Len(workers) :
         LET r == getEligibleNodePools(workers, nodes, failAt) IN
         IF r.err # NilErr
         THEN /\ winningNodeResult' = Nil
              /\ unscheduledPods' = {}
              /\ err' = r.err
              /\ eligibleNodePools' = r.pools
              /\ pcRun' = "check"
              /\ UNCHANGED <<results, errs, numDrained, goVars>>
         ELSE /\ eligibleNodePools' = r.pools
              /\ results' = <<>>
              /\ errs' = NilErr
              /\ numDrained' = 0
              /\ resultCh' = MakeChan(Len(r.pools))
              /\ pcTrigger' = "spawn"
              /\ spawnIdx' = 1
              /\ wg' = 0
              /\ trials' = [i \in TrialIds |-> NoTrial]
              /\ pcRun' = "drain"
              /\ UNCHANGED <<winningNodeResult, unscheduledPods, err, panicked>>
    /\ UNCHANGED <<recommendation, runNumber, exitBranch, retErr>>
    /\ UNCHANGED <<sandboxVars, fnVars, reqVars>>

\* errors.Join(errs, err): its value is dropped by the caller.
Join(a, b) == IF a = NilErr THEN b ELSE a

\* One iteration of `for result := range resultCh`.
RunDrain ==
    /\ pcRun = "drain"
    /\ Len(resultCh.buf) > 0
    /\ LET result == Head(resultCh.buf)
           joined == Join(errs, err)
       IN  IF result.err # NilErr
           THEN UNCHANGED <<results, errs>>
           ELSE /\ results' = Append(results, result)
                /\ UNCHANGED errs
    /\ resultCh' = [resultCh EXCEPT !.buf = Tail(@)]
    /\ numDrained' = numDrained + 1
    /\ UNCHANGED <<eligibleNodePools, pcTrigger, spawnIdx, wg, trials, panicked>>
    /\ UNCHANGED <<sandboxVars, runVars, fnVars, reqVars>>

\* What runSimulation returns once the range has ended.
simulationReturn(rs, es, e) ==
    IF es # NilErr
    THEN [winner |-> Nil, pods |-> {}, err |-> e]
    ELSE LET winningResult == getWinner(rs)
         IN  [winner |-> Some(winningResult.result),
              pods |-> winningResult.unscheduledPods, err |-> NilErr]

\* The range ends on the closed, empty channel; runSimulation returns and
\* Run assigns winningNodeResult, unscheduledPods, err.
RunSelectKeepsPending ==
    /\ pcRun = "drain"
    /\ Len(resultCh.buf) = 0
    /\ resultCh.closed
    /\ LET r == simulationReturn(results, errs, err)
       IN  /\ winningNodeResult' = r.winner
           /\ err' = r.err
    /\ pcRun' = "check"
    /\ UNCHANGED <<recommendation, unscheduledPods, runNumber, exitBranch, retErr>>
    /\ UNCHANGED <<sandboxVars, simVars, goVars, fnVars, reqVars>>

RunSelect ==
    /\ pcRun = "drain"
    /\ Len(resultCh.buf) = 0
    /\ resultCh.closed
    /\ LET r == simulationReturn(results, errs, err)
       IN  /\ winningNodeResult' = r.winner
           /\ unscheduledPods' = r.pods
           /\ err' = r.err
    /\ pcRun' = "check"
    /\ UNCHANGED <<recommendation, runNumber, exitBranch, retErr>>
    /\ UNCHANGED <<sandboxVars, simVars, goVars, fnVars, reqVars>>

\* The rest of the loop body: the two breaks, or the log of the winning
\* score and the next iteration. After the loop Run returns
\* recommendation, nil. (The no-winner log names runCounter, which is not
\* declared anywhere; a log line changes no state.)
RunCheck ==
    /\ pcRun = "check"
    /\ IF err # NilErr
       THEN /\ exitBranch' = "SimulationError"
            /\ retErr' = NilErr
            /\ pcRun' = "done"
       ELSE IF winningNodeResult = Nil
       THEN /\ exitBranch' = "NoWinner"
            /\ retErr' = NilErr
            /\ pcRun' = "done"
       ELSE /\ pcRun' = "loop"
            /\ UNCHANGED <<exitBranch, retErr>>
    /\ UNCHANGED <<recommendation, unscheduledPods, runNumber, winningNodeResult, err>>
    /\ UNCHANGED <<sandboxVars, simVars, goVars, fnVars, reqVars>>

(* ---------------------- triggerNodePoolSimulations -------------------- *)

\* One iteration of the loop over nodePools: wg.Add(1) and the go statement,
\* which hands the goroutine its nodePool and runNum.
TriggerSpawn ==
    /\ pcTrigger = "spawn"
    /\ spawnIdx <= Len(eligibleNodePools)
    /\ wg' = wg + 1
    /\ trials' = [trials EXCEPT ![spawnIdx] =
                     [NoTrial EXCEPT !.pc = "ListNodes",
                                     !.nodePool = eligibleNodePools[spawnIdx],
                                     !.runNum = runNumber]]
    /\ spawnIdx' = spawnIdx + 1
    /\ UNCHANGED <<resultCh, pcTrigger, panicked>>
    /\ UNCHANGED <<sandboxVars, runVars, simVars, fnVars, reqVars>>

\* wg.Wait() returns when the counter is zero.
TriggerWait ==
    /\ pcTrigger = "spawn"
    /\ spawnIdx > Len(eligibleNodePools)
    /\ wg = 0
    /\ pcTrigger' = "close"
    /\ UNCHANGED <<resultCh, spawnIdx, wg, trials, panicked>>
    /\ UNCHANGED <<sandboxVars, runVars, simVars, fnVars, reqVars>>

\* close(resultCh)
TriggerClose ==
    /\ pcTrigger = "close"
    /\ resultCh' = [resultCh EXCEPT !.closed = TRUE]
    /\ pcTrigger' = "idle"
    /\ UNCHANGED <<spawnIdx, wg, trials, panicked>>
    /\ UNCHANGED <<sandboxVars, runVars, simVars, fnVars, reqVars>>

(* ----------------------- runSimulationForNodePool --------------------- *)

\* The label value of trial i.
TrialLabel(i) == labelValue(trials[i].nodePool.Name, trials[i].runNum)

\* The copies a trial makes of the nodes it listed: renamed, and labelled
\* with the trial's label value. Every listed node is taken to carry a label
\* map (it carries its pool's label), so the write to nodeCopy.Labels does
\* not panic.
NodeCopies(listed, label) ==
    {[Name |-> nodeCopyName(n.Name, label), Pool |-> n.Pool, SimRun |-> label] :
        n \in listed}

\* nodes, err := ListNodes(ctx); on an error runRes.err is set and the
\* goroutine goes on to send runRes.
TrialListNodes(i) ==
    /\ trials[i].pc = "ListNodes"
    /\ \E ok \in BOOLEAN :
         trials' = [trials EXCEPT ![i] =
             IF ok
             THEN [@ EXCEPT !.nodes = ListNodes(nodes), !.pc = "AddNodes"]
             ELSE [@ EXCEPT !.runRes.err = "ListNodes", !.pc = "Send"]]
    /\ UNCHANGED <<resultCh, pcTrigger, spawnIdx, wg, panicked>>
    /\ UNCHANGED <<sandboxVars, runVars, simVars, fnVars, reqVars>>

\* The loop making the copies and AddNodes(ctx, NodeList...); its error is
\* not looked at.
TrialAddNodes(i) ==
    /\ trials[i].pc = "AddNodes"
    /\ \E ok \in BOOLEAN :
         nodes' = IF ok THEN AddNodes(nodes, NodeCopies(trials[i].nodes, TrialLabel(i)))
                  ELSE nodes
    /\ trials' = [trials EXCEPT ![i].pc = "ListPods"]
    /\ UNCHANGED <<pods, workers>>
    /\ UNCHANGED <<resultCh, pcTrigger, spawnIdx, wg, panicked>>
    /\ UNCHANGED <<runVars, simVars, fnVars, reqVars>>

\* pods, err := ListPods(ctx); on an error runRes.err is set and the
\* goroutine goes on to send runRes; otherwise the function body ends.
TrialListPods(i) ==
    /\ trials[i].pc = "ListPods"
    /\ \E ok \in BOOLEAN :
         trials' = [trials EXCEPT ![i] =
             IF ok
             THEN [@ EXCEPT !.pc = "Return"]
             ELSE [@ EXCEPT !.runRes.err = "ListPods", !.pc = "Send"]]
    /\ UNCHANGED <<resultCh, pcTrigger, spawnIdx, wg, panicked>>
    /\ UNCHANGED <<sandboxVars, runVars, simVars, fnVars, reqVars>>

\* resultCh <- runRes: blocks while the buffer is full, panics on a closed
\* channel.
TrialSend(i) ==
    /\ trials[i].pc = "Send"
    /\ resultCh.closed \/ Len(resultCh.buf) < resultCh.cap
    /\ IF resultCh.closed
       THEN /\ panicked' = TRUE
            /\ UNCHANGED resultCh
       ELSE /\ resultCh' = [resultCh EXCEPT !.buf = Append(@, trials[i].runRes)]
            /\ UNCHANGED panicked
    /\ trials' = [trials EXCEPT ![i].sent = @ + 1, ![i].pc = "Return"]
    /\ UNCHANGED <<pcTrigger, spawnIdx, wg>>
    /\ UNCHANGED <<sandboxVars, runVars, simVars, fnVars, reqVars>>

\* The return of the goroutine: the deferred wg.Done().
TrialReturnWithoutDone(i) ==
    /\ trials[i].pc = "Return"
    /\ trials' = [trials EXCEPT ![i].pc = "done"]
    /\ UNCHANGED <<resultCh, pcTrigger, spawnIdx, wg, panicked>>
    /\ UNCHANGED <<sandboxVars, runVars, simVars, fnVars, reqVars>>

TrialReturn(i) ==
    /\ trials[i].pc = "Return"
    /\ wg' = wg - 1
    /\ trials' = [trials EXCEPT ![i].pc = "done"]
    /\ UNCHANGED <<resultCh, pcTrigger, spawnIdx, panicked>>
    /\ UNCHANGED <<sandboxVars, runVars, simVars, fnVars, reqVars>>

(* --------------------------- specification ---------------------------- *)

Next ==
    \/ RunListPods
    \/ RunGetShoot
    \/ RunLoop
    \/ RunSimulation
    \/ RunDrain
    \/ RunSelect
    \/ RunCheck
    \/ TriggerSpawn
    \/ TriggerWait
    \/ TriggerClose
    \/ \E i \in TrialIds : TrialListNodes(i)
    \/ \E i \in TrialIds : TrialAddNodes(i)
    \/ \E i \in TrialIds : TrialListPods(i)
    \/ \E i \in TrialIds : TrialSend(i)
    \/ \E i \in TrialIds : TrialReturn(i)

Spec == Init /\ [][Next]_vars

\* The steps of each goroutine: the one running Run, the one running
\* triggerNodePoolSimulations, and one per trial.
RunNext ==
    \/ RunListPods
    \/ RunGetShoot
    \/ RunLoop
    \/ RunSimulation
    \/ RunDrain
    \/ RunSelect
    \/ RunCheck

TriggerNext == TriggerSpawn \/ TriggerWait \/ TriggerClose

TrialNext(i) ==
    \/ TrialListNodes(i)
    \/ TrialAddNodes(i)
    \/ TrialListPods(i)
    \/ TrialSend(i)
    \/ TrialReturn(i)

\* The Go scheduler runs every goroutine that can take a step, and every
\* gateway call returns (with a result or with an error).
FairSpec ==
    /\ Spec
    /\ WF_vars(RunNext)
    /\ WF_vars(TriggerNext)
    /\ \A i \in TrialIds : WF_vars(TrialNext(i))

(* ------------------- getWinner as a function of its input ------------- *)

\* The pools whose trials report, and the results one round can collect:
\* one successful runResult per pool at most, in any order of arrival.
WinnerPools == {<<"a">>, <<"b">>, <<"c">>}

SuccessfulResults ==
    {[result |-> [NodePool |-> p, CumulativeScore |-> sc],
      unscheduledPods |-> {}, err |-> NilErr] :
        p \in WinnerPools, sc \in 0..MaxScore}

ResultLists ==
    {rs \in UNION {[1..n -> SuccessfulResults] : n \in 0..Cardinality(WinnerPools)} :
        \A i, j \in 1..Len(rs) : i # j => rs[i].result.NodePool # rs[j].result.NodePool}

\* An empty sandbox and a shoot of pools without headroom: the state around
\* a call that touches neither.
NoSandbox ==
    /\ nodes = {}
    /\ pods = {}
    /\ workers = [i \in TrialIds |-> [Name |-> WorkerNames[i], Maximum |-> 0]]

InitGetWinner ==
    /\ NoSandbox
    /\ RunEntry
    /\ fnPc = "call getWinner"
    /\ fnArg \in ResultLists
    /\ fnRet = <<>>
    /\ ReqIdle

\* winningResult := getWinner(results)
CallGetWinner ==
    /\ fnPc = "call getWinner"
    /\ fnRet' = getWinner(fnArg)
    /\ fnPc' = "ret getWinner"
    /\ UNCHANGED <<fnArg, sandboxVars, runVars, simVars, goVars, reqVars>>

NextGetWinner == CallGetWinner

SpecGetWinner == InitGetWinner /\ [][NextGetWinner]_vars

(* ------------------ labelValue as a function of its input ------------- *)

LabelAlphabet == {"a", "-", "1"}

\* Every non-empty pool name over the alphabet, up to MaxNameLen characters.
PoolNames == UNION {[1..n -> LabelAlphabet] : n \in 1..MaxNameLen}

\* A trial is a pool in a round; rounds are numbered from 1 (runNumber++
\* precedes the first round).
TrialKeys == [name : PoolNames, runNum : 1..MaxRunNum]

InitLabelValue ==
    /\ NoSandbox
    /\ RunEntry
    /\ fnPc = "call labelValue"
    /\ fnArg \in TrialKeys \X TrialKeys
    /\ fnRet = <<>>
    /\ ReqIdle

\* labelValue := nodePool.Name + "-" + strconv.Itoa(runNum), in two trials
CallLabelValue ==
    /\ fnPc = "call labelValue"
    /\ fnRet' = <<labelValue(fnArg[1].name, fnArg[1].runNum),
                  labelValue(fnArg[2].name, fnArg[2].runNum)>>
    /\ fnPc' = "ret labelValue"
    /\ UNCHANGED <<fnArg, sandboxVars, runVars, simVars, goVars, reqVars>>

NextLabelValue == CallLabelValue

SpecLabelValue == InitLabelValue /\ [][NextLabelValue]_vars

(* --------------------------- HTTP responses --------------------------- *)

\* http.Error(w, msg, code): the status is written unless one was written
\* before, then the message.
httpError(rw, msg, code) ==
    [status |-> IF rw.status = 0 THEN code ELSE rw.status,
     body |-> Append(rw.body, msg)]

\* Writing to the body writes the status 200 unless one was written before.
Write(rw, msg) ==
    [status |-> IF rw.status = 0 THEN 200 ELSE rw.status,
     body |-> Append(rw.body, msg)]

\* The handler has returned: net/http answers 200 when nothing was written.
Finish(rw) == [rw EXCEPT !.status = IF @ = 0 THEN 200 ELSE @]

\* The record of one call: what was called, the nodes passed or returned,
\* and whether it succeeded.
Call(op, ns, ok) == [op |-> op, nodes |-> ns, ok |-> ok]

\* The source cluster of a shoot whose pools hold at most Maximum nodes.
ShootEntry ==
    /\ \E maxs \in [TrialIds -> 0..MaxMaximum] :
           workers = [i \in TrialIds |-> [Name |-> WorkerNames[i], Maximum |-> maxs[i]]]
    /\ \E cnt \in [TrialIds -> 0..MaxMaximum] :
           /\ \A i \in TrialIds : cnt[i] <= workers[i].Maximum
           /\ shootNodes = UNION {InitialNodes(WorkerNames[i], cnt[i]) : i \in TrialIds}

(* ------------------------ handleSyncShootNodes ------------------------ *)

InitSyncHandler ==
    /\ ShootEntry
    /\ \E cnt \in [TrialIds -> 0..MaxInitNodes] :
           nodes = UNION {InitialNodes(WorkerNames[i], cnt[i]) : i \in TrialIds}
    /\ pods = {}
    /\ RunEntry
    /\ FnIdle
    /\ pcReq = "GetNodes"
    /\ w = NewResponseWriter
    /\ calls = <<>>
    /\ reqNodes = {}
    /\ podRequests = [p \in {} |-> 0]
    /\ deployed = {}

\* nodes, err := shootAccess.GetNodes(); on an error the handler answers 500
\* and returns.
SyncGetNodesWithoutReturn ==
    /\ pcReq = "GetNodes"
    /\ \E ok \in BOOLEAN :
          IF ok
          THEN /\ reqNodes' = shootNodes
               /\ calls' = Append(calls, Call("GetNodes", shootNodes, TRUE))
               /\ UNCHANGED w
          ELSE /\ reqNodes' = {}
               /\ calls' = Append(calls, Call("GetNodes", {}, FALSE))
               /\ w' = httpError(w, "GetNodes", 500)
    /\ pcReq' = "AddNodes"
    /\ UNCHANGED <<shootNodes, podRequests, deployed>>
    /\ UNCHANGED <<sandboxVars, runVars, simVars, goVars, fnVars>>

SyncGetNodes ==
    /\ pcReq = "GetNodes"
    /\ \E ok \in BOOLEAN :
          IF ok
          THEN /\ reqNodes' = shootNodes
               /\ calls' = Append(calls, Call("GetNodes", shootNodes, TRUE))
               /\ pcReq' = "AddNodes"
               /\ UNCHANGED w
          ELSE /\ reqNodes' = {}
               /\ calls' = Append(calls, Call("GetNodes", {}, FALSE))
               /\ w' = httpError(w, "GetNodes", 500)
               /\ pcReq' = "done"
    /\ UNCHANGED <<shootNodes, podRequests, deployed>>
    /\ UNCHANGED <<sandboxVars, runVars, simVars, goVars, fnVars>>

\* err = virtualAccess.AddNodes(r.Context(), nodes); on an error the handler
\* answers 500.  A failed AddNodes may have created some of the nodes.
SyncAddNodes ==
    /\ pcReq = "AddNodes"
    /\ \E ok \in BOOLEAN :
          /\ calls' = Append(calls, Call("AddNodes", reqNodes, ok))
          /\ IF ok
             THEN /\ nodes' = AddNodes(nodes, reqNodes)
                  /\ w' = Finish(w)
             ELSE /\ \E some \in SUBSET reqNodes : nodes' = AddNodes(nodes, some)
                  /\ w' = httpError(w, "AddNodes", 500)
    /\ pcReq' = "done"
    /\ UNCHANGED <<pods, workers, shootNodes, reqNodes, podRequests, deployed>>
    /\ UNCHANGED <<runVars, simVars, goVars, fnVars>>

NextSyncHandler == SyncGetNodes \/ SyncAddNodes

SpecSyncHandler == InitSyncHandler /\ [][NextSyncHandler]_vars

(* --------------------------- ScenarioRunner.Run ----------------------- *)

YamlPaths == {"p1", "p2"}

\* webutil.Log(w, msg): the message is written to the response.
Log(rw, msg) == Write(rw, msg)

\* webutil.InternalError(w, err): an http.Error with status 500.
InternalError(rw, e) == httpError(rw, e, 500)

\* The log line of the error paths of Run.
CompletedWithError(rw) == Log(rw, "completed with error")

\* engine.ScaleAllWorkerPoolsTillMax: every pool of the shoot is filled up
\* to its Maximum.
ScaleAllWorkerPoolsTillMax(ns, ws) ==
    AddNodes(ns, UNION {InitialNodes(ws[i].Name, ws[i].Maximum) : i \in 1..Len(ws)})

\* A sandbox left by earlier requests, a shoot, and the pod requests of the
\* scenario.
InitScenario ==
    /\ ShootEntry
    /\ \E c \in 0..MaxInitNodes :
           nodes = UNION {InitialNodes(WorkerNames[i], c) : i \in TrialIds}
    /\ \E k \in 0..MaxPods : pods = 1..k
    /\ RunEntry
    /\ FnIdle
    /\ pcReq = "ClearAll"
    /\ w = NewResponseWriter
    /\ calls = <<>>
    /\ reqNodes = {}
    /\ \E paths \in SUBSET YamlPaths : podRequests \in [paths -> 1..MaxPods]
    /\ deployed = {}

\* What every step of the scenario leaves alone.
ScenarioFrame == UNCHANGED <<workers, shootNodes, podRequests, runVars, simVars, goVars, fnVars>>

\* resetVirtualCluster, first half: ClearAll.
ScenarioClearAll ==
    /\ pcReq = "ClearAll"
    /\ \E ok \in BOOLEAN :
          /\ calls' = Append(calls, Call("ClearAll", {}, ok))
          /\ IF ok
             THEN /\ nodes' = {}
                  /\ pods' = {}
                  /\ pcReq' = "SyncVirtualNodesWithShoot"
                  /\ UNCHANGED w
             ELSE /\ UNCHANGED <<nodes, pods>>
                  /\ w' = InternalError(w, "ClearAll")
                  /\ pcReq' = "done"
    /\ UNCHANGED <<reqNodes, deployed>>
    /\ ScenarioFrame

\* resetVirtualCluster, second half: SyncVirtualNodesWithShoot.
ScenarioSync ==
    /\ pcReq = "SyncVirtualNodesWithShoot"
    /\ \E ok \in BOOLEAN :
          /\ calls' = Append(calls, Call("SyncVirtualNodesWithShoot", {}, ok))
          /\ IF ok
             THEN /\ nodes' = AddNodes(nodes, shootNodes)
                  /\ pcReq' = "GetShootObj"
                  /\ UNCHANGED w
             ELSE /\ UNCHANGED nodes
                  /\ w' = InternalError(w, "SyncVirtualNodesWithShoot")
                  /\ pcReq' = "done"
    /\ UNCHANGED <<pods, reqNodes, deployed>>
    /\ ScenarioFrame

\* shoot, err := s.engine.ShootAccess(s.shootName).GetShootObj()
ScenarioGetShootObj ==
    /\ pcReq = "GetShootObj"
    /\ \E ok \in BOOLEAN :
          /\ calls' = Append(calls, Call("GetShootObj", {}, ok))
          /\ IF ok
             THEN /\ pcReq' = "ScaleAllWorkerPoolsTillMax"
                  /\ UNCHANGED w
             ELSE /\ w' = InternalError(w, "GetShootObj")
                  /\ pcReq' = "done"
    /\ UNCHANGED <<nodes, pods, reqNodes, deployed>>
    /\ ScenarioFrame

\* createNodesInVirtualCluster and the error path of Run after it.
ScenarioScaleAll ==
    /\ pcReq = "ScaleAllWorkerPoolsTillMax"
    /\ \E ok \in BOOLEAN :
          /\ calls' = Append(calls, Call("ScaleAllWorkerPoolsTillMax", {}, ok))
          /\ IF ok
             THEN /\ nodes' = ScaleAllWorkerPoolsTillMax(nodes, workers)
                  /\ w' = Log(Log(w, "Scenario-Start"), "Created nodes")
                  /\ pcReq' = "deployPods"
             ELSE /\ UNCHANGED nodes
                  /\ w' = InternalError(CompletedWithError(Log(w, "Scenario-Start")),
                                        "ScaleAllWorkerPoolsTillMax")
                  /\ pcReq' = "done"
    /\ UNCHANGED <<pods, reqNodes, deployed>>
    /\ ScenarioFrame

\* deployPods, one iteration of the range over podRequests (a Go map: the
\* order is any); on an error deployPods returns it and Run answers.
ScenarioCreatePods ==
    /\ pcReq = "deployPods"
    /\ \E podYamlPath \in DOMAIN podRequests \ deployed, ok \in BOOLEAN :
          /\ calls' = Append(calls, Call("CreatePodsFromYaml", {}, ok))
          /\ deployed' = deployed \cup {podYamlPath}
          /\ IF ok
             THEN /\ pods' = 1..(Cardinality(pods) + podRequests[podYamlPath])
                  /\ w' = Log(w, "Deploying")
                  /\ pcReq' = "deployPods"
             ELSE /\ UNCHANGED pods
                  /\ w' = InternalError(CompletedWithError(Log(w, "Deploying")),
                                        "CreatePodsFromYaml")
                  /\ pcReq' = "done"
    /\ UNCHANGED <<nodes, reqNodes>>
    /\ ScenarioFrame

\* deployPods after the loop: WaitTillNoUnscheduledPodsOrTimeout.
ScenarioWait ==
    /\ pcReq = "deployPods"
    /\ deployed = DOMAIN podRequests
    /\ \E ok \in BOOLEAN :
          /\ calls' = Append(calls, Call("WaitTillNoUnscheduledPodsOrTimeout", {}, ok))
          /\ IF ok
             THEN /\ w' = Log(w, "Waiting")
                  /\ pcReq' = "printPodDeploymentRecommendations"
             ELSE /\ w' = InternalError(CompletedWithError(Log(w, "Waiting")),
                                        "WaitTillNoUnscheduledPodsOrTimeout")
                  /\ pcReq' = "done"
    /\ UNCHANGED <<nodes, pods, reqNodes, deployed>>
    /\ ScenarioFrame

\* printPodDeploymentRecommendations: whatever fails in it, Run goes on.
ScenarioPrint ==
    /\ pcReq = "printPodDeploymentRecommendations"
    /\ \E ok1, ok2 \in BOOLEAN :
          LET w1 == Log(w, "NodePodAssignments")
              c1 == Append(calls, Call("GetNodePodAssignments", {}, ok1))
          IN  IF ~ok1
              THEN /\ calls' = c1
                   /\ w' = InternalError(w1, "GetNodePodAssignments")
              ELSE /\ calls' = Append(c1, Call("GetScalerRecommendation", {}, ok2))
                   /\ w' = IF ok2 THEN Log(w1, "Recommendation for Scaleup")
                                  ELSE CompletedWithError(w1)
    /\ pcReq' = "ListNodes"
    /\ UNCHANGED <<nodes, pods, reqNodes, deployed>>
    /\ ScenarioFrame

\* nodes, err := s.engine.VirtualClusterAccess().ListNodes(ctx)
ScenarioListNodes ==
    /\ pcReq = "ListNodes"
    /\ \E ok \in BOOLEAN :
          IF ok
          THEN /\ calls' = Append(calls, Call("ListNodes", ListNodes(nodes), TRUE))
               /\ reqNodes' = ListNodes(nodes)
               /\ pcReq' = "ScaleDownOrderedByDescendingCost"
               /\ UNCHANGED w
          ELSE /\ calls' = Append(calls, Call("ListNodes", {}, FALSE))
               /\ w' = InternalError(w, "ListNodes")
               /\ pcReq' = "done"
               /\ UNCHANGED reqNodes
    /\ UNCHANGED <<nodes, pods, deployed>>
    /\ ScenarioFrame

\* The call of ScaleDownOrderedByDescendingCost and the end of Run: the error
\* branch has no return, so the two last log lines are written either way.
ScenarioScaleDown ==
    /\ pcReq = "ScaleDownOrderedByDescendingCost"
    /\ \E ok \in BOOLEAN :
          /\ calls' = Append(calls, Call("ScaleDownOrderedByDescendingCost", reqNodes, ok))
          /\ LET w1 == IF ok THEN w
                       ELSE InternalError(CompletedWithError(w),
                                          "ScaleDownOrderedByDescendingCost")
             IN  w' = Log(Log(w1, "Recommendation for Scale-Down"), "Scenario-End")
    /\ pcReq' = "done"
    /\ UNCHANGED <<nodes, pods, reqNodes, deployed>>
    /\ ScenarioFrame

NextScenario ==
    \/ ScenarioClearAll
    \/ ScenarioSync
    \/ ScenarioGetShootObj
    \/ ScenarioScaleAll
    \/ ScenarioCreatePods
    \/ ScenarioWait
    \/ ScenarioPrint
    \/ ScenarioListNodes
    \/ ScenarioScaleDown

SpecScenario == InitScenario /\ [][NextScenario]_vars

(* ------------------- ScaleDownOrderedByDescendingCost ------------------ *)

\* The highest cost among the nodes of ns.
TopCost(ns, cost) == CHOOSE c \in {cost[n.Pool] : n \in ns} : \A m \in ns : cost[m.Pool] <= c

\* Every order of the names of ns in which no node comes before a more
\* expensive one; nodes of equal cost come in any order.
RECURSIVE DescendingCostOrders(_, _)
DescendingCostOrders(ns, cost) ==
    IF ns = {} THEN {<<>>}
    ELSE UNION {{<<n.Name>> \o rest : rest \in DescendingCostOrders(ns \ {n}, cost)} :
                   n \in {m \in ns : cost[m.Pool] = TopCost(ns, cost)}}

\* recommender.ScaleDownOrderedByDescendingCost(ctx, access, w, nodes): the
\* nodes it is given, ordered by descending cost and nothing else.
ScaleDownOrderedByDescendingCost(ns, cost, minimum) == DescendingCostOrders(ns, cost)

\* The pools of the shoot, each with the cost of one of its nodes and its
\* minimum size, and a sandbox holding some nodes of each pool.
InitScaleDown ==
    /\ \E cnt \in [TrialIds -> 0..MaxInitNodes] :
           nodes = UNION {InitialNodes(WorkerNames[i], cnt[i]) : i \in TrialIds}
    /\ pods = {}
    /\ workers = [i \in TrialIds |-> [Name |-> WorkerNames[i], Maximum |-> MaxInitNodes]]
    /\ RunEntry
    /\ ReqIdle
    /\ fnPc = "call ScaleDownOrderedByDescendingCost"
    /\ \E cost \in [{WorkerNames[i] : i \in TrialIds} -> 1..MaxCost],
          minimum \in [{WorkerNames[i] : i \in TrialIds} -> 0..MaxMinimum] :
           fnArg = [nodes |-> ListNodes(nodes), cost |-> cost, minimum |-> minimum]
    /\ fnRet = <<>>

\* scaleDownRecommentation, err := ScaleDownOrderedByDescendingCost(...)
CallScaleDown ==
    /\ fnPc = "call ScaleDownOrderedByDescendingCost"
    /\ fnRet' \in ScaleDownOrderedByDescendingCost(fnArg.nodes, fnArg.cost, fnArg.minimum)
    /\ fnPc' = "ret ScaleDownOrderedByDescendingCost"
    /\ UNCHANGED <<fnArg, sandboxVars, runVars, simVars, goVars, reqVars>>

NextScaleDown == CallScaleDown

SpecScaleDown == InitScaleDown /\ [][NextScaleDown]_vars

(* ---------------------- handleClearVirtualCluster --------------------- *)

InitClearHandler ==
    /\ ShootEntry
    /\ \E cnt \in [TrialIds -> 0..MaxInitNodes] :
           nodes = UNION {InitialNodes(WorkerNames[i], cnt[i]) : i \in TrialIds}
    /\ \E k \in 0..MaxPods : pods = 1..k
    /\ RunEntry
    /\ FnIdle
    /\ pcReq = "ClearAll"
    /\ w = NewResponseWriter
    /\ calls = <<>>
    /\ reqNodes = {}
    /\ podRequests = [p \in {} |-> 0]
    /\ deployed = {}

\* err := virtualAccess.ClearAll(r.Context())
ClearHandlerClearAll ==
    /\ pcReq = "ClearAll"
    /\ \E ok \in BOOLEAN :
          /\ calls' = Append(calls, Call("ClearAll", {}, ok))
          /\ IF ok
             THEN nodes' = {} /\ pods' = {}
             ELSE UNCHANGED <<nodes, pods>>
    /\ pcReq' = "Fprintf"
    /\ UNCHANGED <<workers, shootNodes, w, reqNodes, podRequests, deployed>>
    /\ UNCHANGED <<runVars, simVars, goVars, fnVars>>

\* The message is written before err is looked at; then, on an error,
\* http.Error; then the handler returns.
ClearHandlerRespond ==
    /\ pcReq = "Fprintf"
    /\ LET w1 == Write(w, "Cleared virtual cluster objects")
       IN  w' = IF calls[Len(calls)].ok
                THEN Finish(w1)
                ELSE Finish(httpError(w1, "ClearAll", 500))
    /\ pcReq' = "done"
    /\ UNCHANGED <<shootNodes, calls, reqNodes, podRequests, deployed>>
    /\ UNCHANGED <<sandboxVars, runVars, simVars, goVars, fnVars>>

NextClearHandler == ClearHandlerClearAll \/ ClearHandlerRespond

SpecClearHandler == InitClearHandler /\ [][NextClearHandler]_vars

(* ------------------------------- claims ------------------------------- *)

\* The live node count of a pool in a sandbox.
PoolCount(ns, poolName) == Cardinality({n \in ns : n.Pool = poolName})

\* The position of a pool in the shoot's worker list.
WorkerIndex(ws, poolName) == CHOOSE i \in 1..Len(ws) : ws[i].Name = poolName

EligibilityContract(ws, ns, res, failed) ==
    /\ \A k \in 1..Len(res) :
          /\ \E i \in 1..Len(ws) :
                ws[i].Name = res[k].Name /\ ws[i].Maximum = res[k].Max
          /\ res[k].Current = PoolCount(ns, res[k].Name)
          /\ res[k].Current < res[k].Max
    /\ \A k1, k2 \in 1..Len(res) :
          k1 < k2 => WorkerIndex(ws, res[k1].Name) < WorkerIndex(ws, res[k2].Name)
    /\ IF failed
       THEN Len(res) = 0
       ELSE \A i \in 1..Len(ws) :
               PoolCount(ns, ws[i].Name) < ws[i].Maximum
                   => \E k \in 1..Len(res) : res[k].Name = ws[i].Name

\* C1: whatever the pools' Maximum and node counts, the pools
\* getEligibleNodePools returns are exactly the workers whose node count in
\* the sandbox it queried is below their Maximum (never one at or above it),
\* in the order of the shoot's worker list, each with Current equal to that
\* count; when a gateway call fails it returns no pool.
C1_EligiblePools ==
    [][(pcRun = "runSimulation" /\ pcRun' # "runSimulation")
          => EligibilityContract(workers, nodes, eligibleNodePools', pcRun' = "check")]_vars

\* C1's case: the eligible pools were computed for a round, one pool was
\* left out because it is at or above its Maximum and another was returned.
C1_Witness ==
    /\ pcRun = "drain"
    /\ pcTrigger = "spawn"
    /\ spawnIdx = 1
    /\ Len(eligibleNodePools) = 1
    /\ \E i \in 1..Len(workers) : PoolCount(nodes, workers[i].Name) >= workers[i].Maximum

\* Lexicographic (byte) order of strings over the characters in use.
CharOrder == <<"-", "1", "a", "b", "c">>
CharRank(c) == CHOOSE r \in 1..Len(CharOrder) : CharOrder[r] = c

RECURSIVE LexLeq(_, _)
LexLeq(x, y) ==
    IF Len(x) = 0 THEN TRUE
    ELSE IF Len(y) = 0 THEN FALSE
    ELSE IF Head(x) = Head(y) THEN LexLeq(Tail(x), Tail(y))
    ELSE CharRank(Head(x)) < CharRank(Head(y))

\* C2: when at least one trial succeeded, the winner is one of the
\* successful results, its score is <= every successful result's score, and
\* among the results sharing the minimum score it is the one with the
\* lexicographically smallest pool name, in whatever order the results
\* arrived.
C2_WinnerMinScoreTieByName ==
    (fnPc = "ret getWinner" /\ Len(fnArg) >= 1) =>
        /\ \E i \in 1..Len(fnArg) : fnArg[i] = fnRet
        /\ \A i \in 1..Len(fnArg) :
              /\ fnRet.result.CumulativeScore <= fnArg[i].result.CumulativeScore
              /\ fnArg[i].result.CumulativeScore = fnRet.result.CumulativeScore
                    => LexLeq(fnRet.result.NodePool, fnArg[i].result.NodePool)

\* C3: when runSimulation returns from a round in which no trial succeeded,
\* the winner it returns is nil, and if trials failed it returns a non-nil
\* error.
C3_NoSuccessNoWinner ==
    (pcRun = "check" /\ Len(results) = 0) =>
        /\ winningNodeResult = Nil
        /\ (numDrained > 0 => err # NilErr)

\* C4: the step of Run that ends a round with a winner raises the winning
\* pool's recommendation entry by at least one and leaves every other entry
\* as it was, and no step lowers an entry.
C4_RecommendationCountsWins ==
    [][/\ (pcRun = "check" /\ pcRun' = "loop") =>
             LET p == winningNodeResult[1].NodePool IN
             /\ Get(recommendation', p) >= Get(recommendation, p) + 1
             /\ \A q \in (DOMAIN recommendation \cup DOMAIN recommendation') \ {p} :
                   Get(recommendation', q) = Get(recommendation, q)
       /\ \A q \in DOMAIN recommendation :
             Get(recommendation', q) >= Get(recommendation, q)]_vars

\* C5: Run leaves through the 'all pods are scheduled' exit after a round
\* only if that round had a successful trial, whose placement emptied the
\* pending set; a round without a winner never leads there.
C5_NoWinnerNeverAllScheduled ==
    (pcRun = "done" /\ exitBranch = "AllScheduled" /\ runNumber > 1)
        => Len(results) >= 1

\* The trials launched in the current round.
Launched == {i \in TrialIds : trials[i].pc # "none"}

\* C6: the channel is closed only after every trial of the round has
\* finished, no trial sends on the closed channel, and winner selection
\* starts only after every trial of the round has finished and has put its
\* result on the channel.
C6_CloseAfterJoin ==
    /\ resultCh.closed =>
          /\ spawnIdx > Len(eligibleNodePools)
          /\ \A i \in Launched : trials[i].pc = "done"
    /\ ~panicked
    /\ (pcRun = "check" /\ err = NilErr) =>
          \A i \in 1..Len(eligibleNodePools) :
              trials[i].pc = "done" /\ trials[i].sent >= 1

\* C7: a trial that has ended has put exactly one runResult on the channel,
\* and when the range over the channel has ended the number of results
\* drained equals the number of eligible pools.
C7_OneResultPerTrial ==
    /\ \A i \in TrialIds : trials[i].pc = "done" => trials[i].sent = 1
    /\ pcRun = "check" => numDrained = Len(eligibleNodePools)

\* C8: once a trial has ended, no node of the sandbox carries its label.
C8_TrialLeavesNoObjects ==
    \A i \in TrialIds :
        trials[i].pc = "done" => \A n \in nodes : n.SimRun # TrialLabel(i)

\* C9: the nodes a trial listed carry no label of another trial.
C9_ListingIsolated ==
    \A i \in TrialIds :
        trials[i].pc \notin {"none", "ListNodes"} =>
            \A n \in trials[i].nodes : n.SimRun = NoLabel \/ n.SimRun = TrialLabel(i)

\* C10: two different trials (different pools in one round, or any pools in
\* different rounds) get different label values.
C10_LabelsDistinct ==
    (fnPc = "ret labelValue" /\ fnArg[1] # fnArg[2]) => fnRet[1] # fnRet[2]

\* C10's case: the labels of two trials of different pools and rounds were
\* computed, and pool name and run number written one after the other
\* without the separator would be the same string.
C10_Witness ==
    /\ fnPc = "ret labelValue"
    /\ fnArg[1].name # fnArg[2].name
    /\ fnArg[1].runNum # fnArg[2].runNum
    /\ fnArg[1].name \o Itoa(fnArg[1].runNum) = fnArg[2].name \o Itoa(fnArg[2].runNum)

(* ------------------------- claims, continued -------------------------- *)

\* The trials of the round whose gateway call failed.
FailedTrials == {i \in TrialIds : trials[i].runRes.err # NilErr}

\* C11: when a trial of a round met a gateway failure, the error is in that
\* trial's result only, every trial of the round has run to its end and has
\* put its result on the channel by the time runSimulation returns, and no
\* result carrying an error is among the results the winner is chosen from.
C11_FailureStaysInItsTrial ==
    /\ \A k \in 1..Len(results) : results[k].err = NilErr
    /\ \A k \in 1..Len(resultCh.buf) :
          resultCh.buf[k].err # NilErr
              => \E i \in FailedTrials : trials[i].runRes = resultCh.buf[k]
    /\ (pcRun = "check" /\ err = NilErr /\ FailedTrials # {}) =>
          \A i \in 1..Len(eligibleNodePools) :
              trials[i].pc = "done" /\ trials[i].sent = 1

\* The trials of the round that was run last all failed.
AllTrialsFailed ==
    /\ Len(eligibleNodePools) >= 1
    /\ \A i \in 1..Len(eligibleNodePools) : i \in FailedTrials

\* C12: when Run has ended after a round that failed (the eligibility query
\* returned an error, or every trial of the round failed), the error it
\* returned is not nil.
C12_FailedRoundReturnsError ==
    (pcRun = "done" /\ (exitBranch = "SimulationError" \/ (runNumber >= 2 /\ AllTrialsFailed)))
        => retErr # NilErr

\* The number of rounds (calls of runSimulation) Run has started: every
\* iteration of its loop that found a pod pending.
RoundsExecuted ==
    CASE pcRun \in {"ListPods", "getShoot"} -> 0
      [] pcRun = "loop" -> runNumber
      [] pcRun = "runSimulation" -> runNumber - 1
      [] pcRun \in {"drain", "check"} -> runNumber
      [] pcRun = "done" ->
            IF exitBranch \in {"SimulationError", "NoWinner"} THEN runNumber
            ELSE IF exitBranch = "AllScheduled" THEN runNumber - 1
            ELSE 0

\* C13: Run terminates, and at no time has it started more rounds than there
\* were pods pending in the sandbox at its start.
C13_TerminatesWithinPendingRounds ==
    /\ <>(pcRun = "done")
    /\ [](RoundsExecuted <= Cardinality(pods))

\* C13's case: Run has ended after as many rounds as pods were pending.
C13_Witness ==
    /\ pcRun = "done"
    /\ Cardinality(pods) = 1
    /\ RoundsExecuted = 1

NoRoundNoMutation ==
    /\ pcRun \notin {"runSimulation", "drain", "check"}
    /\ RoundsExecuted = 0
    /\ \A n \in nodes : n.SimRun = NoLabel
    /\ \A i \in TrialIds : trials[i].pc = "none"
    /\ DOMAIN recommendation = {}

\* C15, as stated: on a sandbox without pending pods Run starts no round,
\* makes no mutating sandbox call, and returns an empty recommendation and a
\* nil error.
C15_EmptyPendingNilError ==
    pods = {} =>
        /\ NoRoundNoMutation
        /\ pcRun = "done" => retErr = NilErr

\* C15, amended: on a sandbox without pending pods Run starts no round,
\* makes no mutating sandbox call and returns an empty recommendation; the
\* error it returns is nil when its ListPods call and its read of the shoot
\* succeeded, and is the error of the failed call otherwise.
C15_EmptyPendingNoRound ==
    pods = {} =>
        /\ NoRoundNoMutation
        /\ pcRun = "done" =>
              \/ exitBranch = "AllScheduled" /\ retErr = NilErr /\ runNumber = 1
              \/ exitBranch = "ListPodsError" /\ retErr = "ListPods"
              \/ exitBranch = "GetShootError" /\ retErr = "GetShootObj"

\* C15's case: Run has returned through the empty-pending exit on a sandbox
\* without pending pods that holds nodes.
C15_Witness ==
    /\ pods = {}
    /\ nodes # {}
    /\ pcRun = "done"
    /\ exitBranch = "AllScheduled"

\* The nodes of a pool that are part of the cluster proper: the ones that do
\* not carry the label of a trial.
CommittedNodes(poolName) == {n \in nodes : n.Pool = poolName /\ n.SimRun = NoLabel}

\* A round has ended and has given Run a winner.
RoundWithWinner ==
    /\ pcRun \in {"check", "loop", "done"}
    /\ RoundsExecuted >= 1
    /\ err = NilErr
    /\ winningNodeResult # Nil

\* C16: after a round with a winner the winner names a pool that was
\* eligible in the round, and the sandbox holds one committed node more for
\* that pool than the round's eligibility computation counted.
C16_WinnerNodeCommitted ==
    RoundWithWinner =>
        \E k \in 1..Len(eligibleNodePools) :
            /\ eligibleNodePools[k].Name = winningNodeResult[1].NodePool
            /\ Cardinality(CommittedNodes(eligibleNodePools[k].Name))
                  = eligibleNodePools[k].Current + 1

\* C18: every round returns.  A trial that is about to send finds the
\* channel open and with room, because the channel has room for one result
\* of each trial and each trial sends at most once; and a round that has
\* started reaches the closing of the channel and the end of the drain loop,
\* whatever the number of eligible pools, zero included.
C18_EveryRoundReturns ==
    /\ [](\A i \in TrialIds :
            /\ trials[i].sent <= 1
            /\ trials[i].pc = "Send" =>
                  /\ ~resultCh.closed
                  /\ Len(resultCh.buf) < resultCh.cap)
    /\ [](pcRun = "drain" => resultCh.cap = Len(eligibleNodePools))
    /\ \A n \in 0..Len(WorkerNames) :
          /\ (pcRun = "drain" /\ Len(eligibleNodePools) = n) ~> resultCh.closed
          /\ (pcRun = "drain" /\ Len(eligibleNodePools) = n)
                ~> (pcRun = "check" /\ Len(eligibleNodePools) = n /\ resultCh.buf = <<>>)

\* C18's case: a round of two trials has returned after both trials sent a
\* result and the drain loop received both.
C18_Witness ==
    /\ pcRun = "check"
    /\ Len(eligibleNodePools) = 2
    /\ \A i \in 1..2 : trials[i].sent = 1 /\ trials[i].pc = "done"
    /\ numDrained = 2
    /\ resultCh.closed

\* C20: the handler calls AddNodes only as its second call, after a GetNodes
\* that succeeded, and passes the nodes GetNodes returned; when GetNodes or
\* AddNodes fails the response is a 500 whose body is the error; and the
\* sandbox changes in no step but an AddNodes that follows a successful
\* GetNodes, where it only gains nodes GetNodes returned.
C20_SyncAddsWhatGetNodesReturned ==
    /\ [](\A k \in 1..Len(calls) :
            calls[k].op = "AddNodes" =>
                /\ k = 2
                /\ calls[1] = Call("GetNodes", shootNodes, TRUE)
                /\ calls[k].nodes = calls[1].nodes)
    /\ [](pcReq = "done" =>
            /\ Len(calls) >= 1
            /\ \A k \in 1..Len(calls) :
                  ~calls[k].ok => w = [status |-> 500, body |-> <<calls[k].op>>]
            /\ (\A k \in 1..Len(calls) : calls[k].ok) => w = [status |-> 200, body |-> <<>>]
            /\ (Len(calls) = 2 /\ calls[2].ok) => nodes = AddNodes(nodes, calls[1].nodes))
    /\ [][nodes' # nodes =>
            /\ calls' = Append(calls, calls'[Len(calls')])
            /\ calls'[Len(calls')].op = "AddNodes"
            /\ calls[1].ok
            /\ nodes \subseteq nodes'
            /\ nodes' \subseteq nodes \cup calls[1].nodes]_vars
    /\ [][(pcReq = "GetNodes" /\ pcReq' = "done") =>
            /\ sandboxVars' = sandboxVars
            /\ Len(calls') = 1 /\ ~calls'[1].ok]_vars

\* C20's case: GetNodes returned nodes the sandbox did not have, AddNodes
\* failed, and the handler has answered.
C20_Witness ==
    /\ pcReq = "done"
    /\ Len(calls) = 2
    /\ calls[1].ok /\ ~calls[2].ok
    /\ calls[2].nodes \ nodes # {}
    /\ w.status = 500

\* The stages of ScenarioRunner.Run, in their order; deploying the pods is
\* the CreatePodsFromYaml calls and the wait after them.
StageOf(op) ==
    CASE op = "ClearAll" -> 1
      [] op = "SyncVirtualNodesWithShoot" -> 2
      [] op = "GetShootObj" -> 3
      [] op = "ScaleAllWorkerPoolsTillMax" -> 4
      [] op \in {"CreatePodsFromYaml", "WaitTillNoUnscheduledPodsOrTimeout"} -> 5
      [] op = "ListNodes" -> 6
      [] op = "ScaleDownOrderedByDescendingCost" -> 7
      [] OTHER -> 0

IsStageCall(c) == StageOf(c.op) # 0

StageCalls == SelectSeq(calls, IsStageCall)

\* The stages start with the first, follow each other in the fixed order
\* with none left out, and one is started only after the calls before it
\* succeeded.
StagesInOrder ==
    LET sc == StageCalls
    IN  /\ Len(sc) >= 1 => StageOf(sc[1].op) = 1
        /\ \A k \in 1..(Len(sc) - 1) :
              /\ sc[k].ok
              /\ StageOf(sc[k + 1].op) \in {StageOf(sc[k].op), StageOf(sc[k].op) + 1}

\* C19: the stages of ScenarioRunner.Run run in the fixed order, each only
\* after every earlier one succeeded, and 'Scenario-End' is in the log only
\* when all of them succeeded.
C19_StagesInOrderEndOnlyOnSuccess ==
    /\ StagesInOrder
    /\ (\E k \in 1..Len(w.body) : w.body[k] = "Scenario-End") =>
          /\ \A k \in 1..Len(StageCalls) : StageCalls[k].ok
          /\ {StageOf(StageCalls[k].op) : k \in 1..Len(StageCalls)} = 1..7

\* The node of the ranked sandbox that has a name.
NodeNamed(name) == CHOOSE n \in fnArg.nodes : n.Name = name

\* The ranking lists nodes of the sandbox, each at most once, and no node
\* before a more expensive one.
RankedByDescendingCost ==
    /\ \A i \in 1..Len(fnRet) : \E n \in fnArg.nodes : n.Name = fnRet[i]
    /\ \A i, j \in 1..Len(fnRet) :
          i < j => /\ fnRet[i] # fnRet[j]
                   /\ fnArg.cost[NodeNamed(fnRet[i]).Pool] >= fnArg.cost[NodeNamed(fnRet[j]).Pool]

\* C17: the ranking is in descending per-node cost, lists no node whose
\* removal would take its pool below the pool's minimum, and the sandbox
\* holds after the call the nodes it held before.
C17_RankingRespectsPoolMinimum ==
    fnPc = "ret ScaleDownOrderedByDescendingCost" =>
        /\ RankedByDescendingCost
        /\ \A n \in fnArg.nodes :
              (\E i \in 1..Len(fnRet) : fnRet[i] = n.Name)
                  => PoolCount(fnArg.nodes, n.Pool) - 1 >= fnArg.minimum[n.Pool]
        /\ nodes = fnArg.nodes

\* The parts of C17 that do not depend on the pool minimum.
RankingOrderedAndSandboxKept ==
    fnPc = "ret ScaleDownOrderedByDescendingCost" =>
        /\ RankedByDescendingCost
        /\ nodes = fnArg.nodes

\* The response carries the success message of the clear handler.
SaysCleared == \E k \in 1..Len(w.body) : w.body[k] = "Cleared virtual cluster objects"

\* C21: once the clear handler has answered, a failed ClearAll has given the
\* status 500 and no success message, and the success message is in the
\* response only when ClearAll succeeded.
C21_ClearedOnlyOnSuccess ==
    pcReq = "done" =>
        /\ ~calls[1].ok => (w.status = 500 /\ ~SaysCleared)
        /\ SaysCleared => calls[1].ok

\* What the handler does answer: the success message whatever ClearAll
\* returned, under the status 200, followed by the error when there is one.
ClearHandlerAnswer ==
    pcReq = "done" =>
        /\ w.status = 200
        /\ w.body = IF calls[1].ok THEN <<"Cleared virtual cluster objects">>
                    ELSE <<"Cleared virtual cluster objects", "ClearAll">>

====
